---- MODULE Spec2Model ----
(***************************************************************************)
(* Numerical gradient checking of polakowo/deepnn.                         *)
(*                                                                         *)
(*   src/src/utils/gradient_checker.py   roll_params, unroll_params,       *)
(*                                       calculate_diff,                   *)
(*                                       GradientChecker.compute_error     *)
(*   src/utils/gradient_check.py         params_to_vector,                 *)
(*                                       vector_to_params, calculate_diff, *)
(*                                       GradientCheck.run                 *)
(*                                                                         *)
(* A numpy array is a shape and a map from index tuples to scalars; a      *)
(* Python dict is its insertion-ordered key list and a map on the keys.    *)
(* Scalars live on a fixed-point grid whose step is the checker's eps.     *)
(***************************************************************************)
EXTENDS Integers, Sequences, FiniteSets, TLC

VARIABLES
    variant,      \* which entry point runs: "compute_error", "run", "roller", "score"
    model,        \* the collaborator model's configuration (regularizer, cost, backprop)
    layers,       \* model.layers: each layer's params and grads collections (mutable)
    layers0,      \* model.layers as they were at call entry
    pc,           \* position inside the running call
    err,          \* the exception that ended the call, and where it was raised
    keys,         \* key list handed to params_to_vector
    params,       \* compute_error: flat snapshot of the params; run: the params dict
    grads,        \* compute_error: flat snapshot of the grads;  run: the grads dict
    param_theta,  \* flattened parameters
    param_cache,  \* (params, positions) returned by params_to_vector
    grad_theta,   \* flattened analytic gradients
    grad_approx,  \* numeric gradients
    i,            \* loop coordinate (0-based, as in the source)
    cost_plus,    \* cost of the plus pass of coordinate i
    fed,          \* what the model held at the latest forward evaluation of the loop
    forwards,     \* number of propagate_forward calls made so far
    theta,        \* roller: vector returned by roll_params
    out,          \* roller: collection returned by vector_to_params
    diff,         \* the relative error returned
    verdict       \* run: the message printed

vars == <<variant, model, layers, layers0, pc, err, keys, params, grads,
          param_theta, param_cache, grad_theta, grad_approx, i, cost_plus,
          fed, forwards, theta, out, diff, verdict>>

(***************************************************************************)
(* Bounds of the model                                                     *)
(***************************************************************************)
\* most layers of a model
MaxLayers == 2
\* longest vector handed to calculate_diff on its own
MaxLen == 2

\* shapes of the weight arrays of the models checked end to end
Shapes == {<<1, 2>>, <<2, 1>>}
\* shapes of the arrays handed to the roller on its own: 1-D, 2-D and 3-D
RollerShapes == {<<2>>, <<1, 1>>, <<1, 2>>, <<2, 1>>, <<2, 2>>, <<1, 2, 1>>, <<2, 1, 2>>}
\* entries of the vectors handed to calculate_diff on its own
SmallVals == {-4, 0, 3}
\* one-element vectors whose relative difference is exactly 2e-7
BigVals == {4999999, 5000001}

(***************************************************************************)
(* Scalars                                                                 *)
(***************************************************************************)
Abs(x) == IF x < 0 THEN -x ELSE x

Min(a, b) == IF a < b THEN a ELSE b

RECURSIVE SqrtIn(_, _, _)
\* the r with lo <= r < hi and r * r <= n < (r + 1) * (r + 1), by bisection
SqrtIn(n, lo, hi) ==
    IF hi - lo <= 1 THEN lo
    ELSE LET mid == (lo + hi) \div 2
         IN  IF mid > n \div mid THEN SqrtIn(n, lo, mid) ELSE SqrtIn(n, mid, hi)

\* np.sqrt on the grid: the square root, rounded down to the grid
Sqrt(n) == SqrtIn(n, 0, n + 1)

Range(s) == {s[p] : p \in DOMAIN s}

(***************************************************************************)
(* numpy arrays                                                            *)
(***************************************************************************)
RECURSIVE Size(_)
\* number of elements of an array of this shape
Size(shape) == IF shape = <<>> THEN 1 ELSE shape[1] * Size(Tail(shape))

RECURSIVE Indices(_)
\* the index tuples of an array of this shape (1-based)
Indices(shape) ==
    IF shape = <<>> THEN {<<>>}
    ELSE {<<h>> \o t : h \in 1..shape[1], t \in Indices(Tail(shape))}

RECURSIVE RavelFrom(_, _, _, _)
RavelFrom(shape, t, k, off) ==
    IF k > Len(shape) THEN off
    ELSE RavelFrom(shape, t, k + 1, off * shape[k] + (t[k] - 1))

\* C-order (row-major) offset of index tuple t, 0-based
Ravel(shape, t) == RavelFrom(shape, t, 1, 0)

\* Fortran-order (column-major) offset of index tuple t, 0-based
RavelF(shape, t) ==
    LET n == Len(shape)
        rev(s) == [k \in 1..n |-> s[n + 1 - k]]
    IN  RavelFrom(rev(shape), rev(t), 1, 0)

RECURSIVE Unravel(_, _)
\* the index tuple at C-order offset off (0-based)
Unravel(shape, off) ==
    IF shape = <<>> THEN <<>>
    ELSE LET n == Len(shape)
         IN  Append(Unravel(SubSeq(shape, 1, n - 1), off \div shape[n]), (off % shape[n]) + 1)

\* ndarray.flatten(), np.reshape(a, (-1, 1)): the elements in C order
Flatten(a) == [p \in 1..Size(a.shape) |-> a.at[Unravel(a.shape, p - 1)]]

ReshapeF(v, shape) ==
    [shape |-> shape, at |-> [t \in Indices(shape) |-> v[RavelF(shape, t) + 1]]]

\* ndarray.reshape(shape) of a vector of Size(shape) elements
Reshape(v, shape) ==
    [shape |-> shape, at |-> [t \in Indices(shape) |-> v[Ravel(shape, t) + 1]]]

\* theta[a:b], 0-based and half-open, cut at the end of theta as Python cuts it
Slice(v, a, b) ==
    IF a >= Min(b, Len(v)) THEN <<>> ELSE SubSeq(v, a + 1, Min(b, Len(v)))

\* theta[p] = theta[p] + d on the vector perturbed before, not on a copy of theta
PerturbInPlace(v, p, d) == [(IF fed.i >= 0 THEN fed.seen ELSE v) EXCEPT ![p + 1] = @ + d]

\* np.copy(theta); theta[p] = theta[p] + d   (p 0-based)
Perturb(v, p, d) == [v EXCEPT ![p + 1] = @ + d]

Zeros(n) == [p \in 1..n |-> 0]

(***************************************************************************)
(* Python dicts                                                            *)
(***************************************************************************)
None == [none |-> TRUE, keys |-> <<>>, val |-> <<>>]

Dict(ks, f) == [none |-> FALSE, keys |-> ks, val |-> [k \in Range(ks) |-> f[k]]]

HasKey(d, k) == k \in Range(d.keys)

(***************************************************************************)
(* Parameter roller, live-shape variant (gradient_checker.py)              *)
(***************************************************************************)
RECURSIVE RollKeys(_, _)
\* the inner loop of roll_params: for k in params, from the q-th key on
RollKeys(d, q) ==
    IF q > Len(d.keys) THEN <<>>
    ELSE Flatten(d.val[d.keys[q]]) \o RollKeys(d, q + 1)

RECURSIVE RollFrom(_, _, _)
RollFrom(ls, param_type, l) ==
    IF l > Len(ls) THEN <<>>
    ELSE LET d == ls[l][param_type]
         IN  (IF d.none THEN <<>> ELSE RollKeys(d, 1)) \o RollFrom(ls, param_type, l + 1)

roll_params(ls, param_type) == RollFrom(ls, param_type, 1)

RECURSIVE UnrollFrom(_, _, _, _, _, _)
\* the loops of unroll_params from layer l, key q and offset n on; the layers are
\* written in place, so what was written before an exception stays written
UnrollFrom(v, ls, param_type, l, q, n) ==
    IF l > Len(ls) THEN [layers |-> ls, err |-> "none"]
    ELSE LET d == ls[l][param_type]
         IN  IF d.none \/ q > Len(d.keys)
             THEN UnrollFrom(v, ls, param_type, l + 1, 1, n)
             ELSE LET k == d.keys[q]
                      shape == d.val[k].shape
                  IN  IF Len(shape) < 2
                      THEN [layers |-> ls, err |-> "IndexError"]
                      ELSE LET j == n + shape[1] * shape[2]
                               piece == Slice(v, n, j)
                           IN  IF Len(piece) # Size(shape)
                               THEN [layers |-> ls, err |-> "ValueError"]
                               ELSE UnrollFrom(v,
                                        [ls EXCEPT ![l][param_type].val[k] = Reshape(piece, shape)],
                                        param_type, l, q + 1, j)

unroll_params(v, ls, param_type) == UnrollFrom(v, ls, param_type, 1, 1, 0)

(***************************************************************************)
(* Parameter roller, position-index variant (gradient_check.py)            *)
(***************************************************************************)
RECURSIVE PtvFrom(_, _, _, _, _)
PtvFrom(d, ks, q, v, positions) ==
    IF q > Len(ks) THEN [err |-> "none", theta |-> v, cache |-> [params |-> d, positions |-> positions]]
    ELSE LET key == ks[q]
         IN  IF ~HasKey(d, key)
             THEN [err |-> "KeyError", theta |-> <<>>, cache |-> None]
             ELSE LET vector == Flatten(d.val[key])
                      from_i == Len(v)
                      to_i == Len(v) + Len(vector)
                  IN  PtvFrom(d, ks, q + 1, v \o vector,
                          [none |-> FALSE,
                           keys |-> IF HasKey(positions, key) THEN positions.keys
                                    ELSE Append(positions.keys, key),
                           val  |-> [x \in DOMAIN positions.val \cup {key} |->
                                        IF x = key THEN <<from_i, to_i>> ELSE positions.val[x]]])

params_to_vector(d, ks) == PtvFrom(d, ks, 1, <<>>, [none |-> FALSE, keys |-> <<>>, val |-> <<>>])

RECURSIVE VtpFrom(_, _, _, _)
VtpFrom(v, cache, q, d) ==
    IF q > Len(cache.positions.keys) THEN [err |-> "none", params |-> d]
    ELSE LET key == cache.positions.keys[q]
             from_i == cache.positions.val[key][1]
             to_i == cache.positions.val[key][2]
             shape == cache.params.val[key].shape
             piece == Slice(v, from_i, to_i)
         IN  IF Len(piece) # Size(shape)
             THEN [err |-> "ValueError", params |-> d]
             ELSE VtpFrom(v, cache, q + 1, [d EXCEPT !.val[key] = Reshape(piece, shape)])

vector_to_params(v, cache) == VtpFrom(v, cache, 1, cache.params)

(***************************************************************************)
(* Inputs                                                                  *)
(***************************************************************************)
RECURSIVE Digits(_, _)
Digits(t, k) == IF k = 0 THEN 0 ELSE 10 * Digits(t, k - 1) + t[k]

\* an array whose elements are all different: base plus the digits of the index
ArrayOf(shape, base) == [shape |-> shape, at |-> [t \in Indices(shape) |-> base + Digits(t, Len(t))]]

Layer(kind, p, g, gorder) == [kind |-> kind, params |-> p, grads |-> g, gorder |-> gorder]

Unused == <<>>

\* nothing printed yet
NoReport == ""

NoError == {}

Raised(kind, at) == {[kind |-> kind, at |-> at]}

KeyBase(k) == IF k = "W0" THEN 1000 ELSE 2000

\* the collections handed to the roller: one or two keys, in either order
RollerCollections ==
    {Dict(ks, [k \in Range(ks) |-> ArrayOf(sh[k], KeyBase(k))]) :
        <<ks, sh>> \in UNION {{<<ks, sh>> : sh \in [Range(ks) -> RollerShapes]} :
                                ks \in {<<"W0">>, <<"b0">>, <<"W0", "b0">>, <<"b0", "W0">>}}}

\* the key lists handed to params_to_vector; W1 is in no collection
KeyLists == {<<"W0">>, <<"W0", "b0">>, <<"b0", "W0">>, <<"W0", "W1">>}

All2D(d) == \A k \in Range(d.keys) : Len(d.val[k].shape) = 2

(***************************************************************************)
(* The roller on its own                                                   *)
(***************************************************************************)
RollerInit ==
    /\ variant = "roller"
    /\ params \in RollerCollections
    /\ keys \in KeyLists
    /\ layers = <<Layer("Dense", params, None, <<>>),
                  Layer("Activation", None, None, <<>>),
                  Layer("Dense", params, None, <<>>)>>
    /\ layers0 = layers
    /\ pc = "flatten"
    /\ err = NoError
    /\ model = Unused /\ grads = Unused /\ grad_theta = Unused /\ grad_approx = Unused
    /\ param_theta = Unused /\ param_cache = Unused /\ theta = Unused /\ out = Unused
    /\ i = 0 /\ cost_plus = 0 /\ fed = Unused /\ forwards = 0
    /\ diff = Unused /\ verdict = NoReport

\* theta, cache = params_to_vector(params, keys) returns
ParamsToVectorStep ==
    /\ variant = "roller" /\ pc = "flatten"
    /\ params_to_vector(params, keys).err = "none"
    /\ param_theta' = params_to_vector(params, keys).theta
    /\ param_cache' = params_to_vector(params, keys).cache
    /\ pc' = "unflatten"
    /\ UNCHANGED <<variant, model, layers, layers0, err, keys, params, grads, grad_theta,
                   grad_approx, i, cost_plus, fed, forwards, theta, out, diff, verdict>>

\* params_to_vector(params, keys) raises
ParamsToVectorRaises ==
    /\ variant = "roller" /\ pc = "flatten"
    /\ params_to_vector(params, keys).err # "none"
    /\ err' = err \cup Raised(params_to_vector(params, keys).err, "params_to_vector")
    /\ pc' = "roll"
    /\ UNCHANGED <<variant, model, layers, layers0, keys, params, grads, param_theta,
                   param_cache, grad_theta, grad_approx, i, cost_plus, fed, forwards,
                   theta, out, diff, verdict>>

\* out = vector_to_params(theta, cache)
VectorToParamsStep ==
    /\ variant = "roller" /\ pc = "unflatten"
    /\ LET r == vector_to_params(param_theta, param_cache)
       IN  /\ out' = r.params
           /\ err' = IF r.err = "none" THEN err ELSE err \cup Raised(r.err, "vector_to_params")
    /\ pc' = "roll"
    /\ UNCHANGED <<variant, model, layers, layers0, keys, params, grads, param_theta,
                   param_cache, grad_theta, grad_approx, i, cost_plus, fed, forwards,
                   theta, diff, verdict>>

\* theta = roll_params(layers, 'params')
RollStep ==
    /\ variant = "roller" /\ pc = "roll"
    /\ theta' = roll_params(layers, "params")
    /\ pc' = "unroll"
    /\ UNCHANGED <<variant, model, layers, layers0, err, keys, params, grads, param_theta,
                   param_cache, grad_theta, grad_approx, i, cost_plus, fed, forwards,
                   out, diff, verdict>>

\* unroll_params(theta, layers, 'params')
UnrollStep ==
    /\ variant = "roller" /\ pc = "unroll"
    /\ LET r == unroll_params(theta, layers, "params")
       IN  /\ layers' = r.layers
           /\ err' = IF r.err = "none" THEN err ELSE err \cup Raised(r.err, "unroll_params")
    /\ pc' = "rolled"
    /\ UNCHANGED <<variant, model, layers0, keys, params, grads, param_theta,
                   param_cache, grad_theta, grad_approx, i, cost_plus, fed, forwards,
                   theta, out, diff, verdict>>

RollerNext ==
    \/ ParamsToVectorStep
    \/ ParamsToVectorRaises
    \/ VectorToParamsStep
    \/ RollStep
    \/ UnrollStep

SpecRoller == RollerInit /\ [][RollerNext]_vars

RaisedAt(at) == \E e \in err : e.at = at

\* C2: round trip. For a collection whose arrays are all 2-D, in any key order,
\* vector_to_params(params_to_vector(c, keys)) is c again (keys, key order, shapes
\* and every element), and unroll_params of roll_params on the same layers leaves
\* the layers as they were, raising nothing.
C2_RoundTrip ==
    (variant = "roller" /\ All2D(params)) =>
        /\ (pc \in {"roll", "unroll", "rolled"} /\ ~RaisedAt("params_to_vector")) =>
               (out = params /\ ~RaisedAt("vector_to_params"))
        /\ pc = "rolled" => (layers = layers0 /\ ~RaisedAt("unroll_params"))

\* both round trips done on a collection of two 2-D arrays, one of them 2 x 2,
\* listed in the order opposite to the collection's own
C2_Witness ==
    /\ variant = "roller" /\ pc = "rolled" /\ All2D(params)
    /\ ~RaisedAt("params_to_vector")
    /\ params.keys = <<"b0", "W0">> /\ keys = <<"W0", "b0">>
    /\ params.val["W0"].shape = <<2, 2>> /\ params.val["b0"].shape = <<2, 1>>
    /\ out = params /\ layers = layers0

\* C8: flatten fails, and returns no vector, whenever a listed key is absent or
\* its array is not 2-dimensional. Stated of params_to_vector (the listed keys)
\* and of roll_params (every key of every layer).
C8_FlattenRejects ==
    variant = "roller" =>
        /\ (pc # "flatten" /\ \E k \in Range(keys) : ~HasKey(params, k) \/ Len(params.val[k].shape) # 2)
              => (RaisedAt("params_to_vector") /\ param_theta = Unused)
        /\ (pc \in {"unroll", "rolled"} /\ ~All2D(params)) => theta = Unused

(***************************************************************************)
(* Discrepancy scorer                                                      *)
(***************************************************************************)
\* eps, the step of the fixed-point grid the model's scalars live on
Eps == 1
\* the tolerance 2e-7 of GradientCheck.run, as the fraction TolNum / TolDen
TolNum == 2
TolDen == 10000000

RECURSIVE SumSq(_)
SumSq(v) == IF v = <<>> THEN 0 ELSE v[1] * v[1] + SumSq(Tail(v))

VecSub(a, b) == [p \in 1..Len(a) |-> a[p] - b[p]]

\* np.linalg.norm: sqrt of the sum of squares; of a single element x it is |x|,
\* which is computed without the square to stay inside the model's integers
Norm(v) == IF Len(v) = 1 THEN Abs(v[1]) ELSE Sqrt(SumSq(v))

\* x / y of two non-negative numpy floats: 0 / 0 is nan (numpy warns and goes on)
Divide(x, y) == [nan |-> (x = 0 /\ y = 0), num |-> x, den |-> y]

\* calculate_diff of gradient_checker.py
relative_error(a, b) == Divide(Norm(VecSub(a, b)), Norm(a) + Norm(b))

\* calculate_diff of gradient_check.py: the norm of each norm is its absolute value
calculate_diff(a, b) == Divide(Abs(Norm(VecSub(a, b))), Abs(Norm(a)) + Abs(Norm(b)))

\* d > n / m as floats compare: every comparison with nan is False
\* (the product d.num * m is avoided: d.num * m > x exactly when d.num > x \div m)
GreaterThan(d, n, m) == ~d.nan /\ d.num > (n * d.den) \div m

\* d < n / m
LessThan(d, n, m) == ~d.nan /\ d.num < (n * d.den + m - 1) \div m

\* d = n / m
EqualTo(d, n, m) == ~d.nan /\ (n * d.den) % m = 0 /\ d.num = (n * d.den) \div m

ReportAtOrAbove(d) ==
    IF ~LessThan(d, TolNum, TolDen) THEN "Failed gradient checking" ELSE "Passed gradient checking"

\* if diff > 2e-7: print Failed ... else: print Passed ...
Report(d) ==
    IF GreaterThan(d, TolNum, TolDen) THEN "Failed gradient checking" ELSE "Passed gradient checking"

IsZero(v) == \A p \in DOMAIN v : v[p] = 0

\* the vectors handed to calculate_diff on its own
ScoreVectors(n) == [1..n -> SmallVals] \cup (IF n = 1 THEN {<<b>> : b \in BigVals} ELSE {})

ScoreInit ==
    /\ variant = "score"
    /\ \E n \in 1..MaxLen :
          /\ grad_theta \in ScoreVectors(n)
          /\ grad_approx \in ScoreVectors(n)
    /\ pc = "diff"
    /\ err = NoError
    /\ model = Unused /\ layers = Unused /\ layers0 = Unused /\ keys = Unused
    /\ params = Unused /\ grads = Unused /\ param_theta = Unused /\ param_cache = Unused
    /\ theta = Unused /\ out = Unused /\ fed = Unused
    /\ i = 0 /\ cost_plus = 0 /\ forwards = 0
    /\ diff = Unused /\ verdict = NoReport

\* relative_error = calculate_diff(grad_theta, grad_approx)   (gradient_checker.py)
RelativeErrorStep ==
    /\ variant = "score" /\ pc = "diff"
    /\ diff' = relative_error(grad_theta, grad_approx)
    /\ pc' = "returned"
    /\ UNCHANGED <<variant, model, layers, layers0, err, keys, params, grads, param_theta,
                   param_cache, grad_theta, grad_approx, i, cost_plus, fed, forwards,
                   theta, out, verdict>>

\* diff = calculate_diff(grad_theta, gradapprox)   (gradient_check.py)
CalculateDiffStep ==
    /\ variant = "score" /\ pc = "diff"
    /\ diff' = calculate_diff(grad_theta, grad_approx)
    /\ pc' = "report"
    /\ UNCHANGED <<variant, model, layers, layers0, err, keys, params, grads, param_theta,
                   param_cache, grad_theta, grad_approx, i, cost_plus, fed, forwards,
                   theta, out, verdict>>

\* the report of GradientCheck.run and its return
ReportStep ==
    /\ variant = "score" /\ pc = "report"
    /\ verdict' = Report(diff)
    /\ pc' = "returned"
    /\ UNCHANGED <<variant, model, layers, layers0, err, keys, params, grads, param_theta,
                   param_cache, grad_theta, grad_approx, i, cost_plus, fed, forwards,
                   theta, out, diff>>

ScoreNext ==
    \/ RelativeErrorStep
    \/ CalculateDiffStep
    \/ ReportStep

SpecScore == ScoreInit /\ [][ScoreNext]_vars

Reported == verdict \in {"Failed gradient checking", "Passed gradient checking"}

\* C5: zero-norm policy. When both compared vectors are exactly zero, the score
\* returned is the number 0, never nan.
C5_ZeroNorm ==
    (variant = "score" /\ pc \in {"report", "returned"} /\ IsZero(grad_theta) /\ IsZero(grad_approx))
        => (~diff.nan /\ diff.num = 0)

\* C6 as stated: a score that is a number is reported as passing exactly when it
\* is strictly below 2e-7, and as failing when it is equal to 2e-7 or above.
C6_FailAtTolerance ==
    (variant = "score" /\ pc = "returned" /\ Reported /\ ~diff.nan) =>
        (verdict = "Passed gradient checking" <=> LessThan(diff, TolNum, TolDen))

\* C6, amended: run reports failing exactly when the score is strictly above
\* 2e-7; a score equal to 2e-7 or below, and the nan of two zero vectors, are
\* reported as passing.
C6_FailAboveTolerance ==
    (variant = "score" /\ pc = "returned" /\ Reported) =>
        /\ verdict = "Failed gradient checking" <=> GreaterThan(diff, TolNum, TolDen)
        /\ verdict = "Passed gradient checking" <=>
               (diff.nan \/ LessThan(diff, TolNum, TolDen) \/ EqualTo(diff, TolNum, TolDen))

\* a score exactly equal to the tolerance has been reported
C6_Witness ==
    /\ variant = "score" /\ pc = "returned" /\ Reported
    /\ EqualTo(diff, TolNum, TolDen)
    /\ verdict = "Passed gradient checking"

(***************************************************************************)
(* The collaborator model                                                  *)
(*                                                                         *)
(* Layers, propagation and cost are not part of the checker. The cost is a *)
(* fixed function of the parameters (the checker's inputs are fixed), and  *)
(* the backward pass stores the exact gradient of that cost.               *)
(***************************************************************************)
Regularizers == {"None", "L2", "Dropout", "BatchNorm"}

CostFns == {"zero", "linear"}

\* a layer's own parameter of role "W" or "b" at index t weighs Coef in the linear cost
Coef(l, role, t) == 100 * l + (IF role = "W" THEN 0 ELSE 50) + Digits(t, Len(t))

RoleShape(role, shape) == IF role = "W" THEN shape ELSE <<shape[1], 1>>

GradKey(k) == "d" \o k

\* the exact gradient of the cost with respect to the parameter array of (l, role)
Gradient(cost, l, role, shape) ==
    [shape |-> shape,
     at |-> [t \in Indices(shape) |-> IF cost = "linear" THEN Coef(l, role, t) ELSE 0]]

RECURSIVE SumOver(_, _)
SumOver(f, S) ==
    IF S = {} THEN 0
    ELSE LET x == CHOOSE y \in S : TRUE IN f[x] + SumOver(f, S \ {x})

\* the contribution of one parameter array to the cost
ArrayCost(cost, l, role, a) ==
    IF cost = "zero" THEN 0
    ELSE SumOver([t \in Indices(a.shape) |-> Coef(l, role, t) * a.at[t]], Indices(a.shape))

\* model.compute_cost(model.propagate_forward(X, predict=True), Y) on these layers
compute_cost(cost, ls) ==
    SumOver([l \in DOMAIN ls |->
                IF ls[l].params.none THEN 0
                ELSE SumOver([k \in Range(ls[l].params.keys) |->
                                 ArrayCost(cost, l, k, ls[l].params.val[k])],
                             Range(ls[l].params.keys))],
            DOMAIN ls)

\* model.propagate_backward(output, Y): every layer that has parameters stores the
\* gradient of each of them, under the layer's own order of gradient keys
propagate_backward(cost, ls) ==
    [l \in DOMAIN ls |->
        IF ls[l].params.none THEN ls[l]
        ELSE [ls[l] EXCEPT !.grads =
                 Dict(ls[l].gorder,
                      [g \in Range(ls[l].gorder) |->
                          LET role == IF g = "dW" THEN "W" ELSE "b"
                          IN  Gradient(cost, l, role, ls[l].params.val[role].shape)])]]

\* how a layer orders its keys and whether its gradients were computed before
LayerFlavours ==
    {[porder |-> <<"W", "b">>, gorder |-> <<"dW", "db">>, computed |-> TRUE],
     [porder |-> <<"W", "b">>, gorder |-> <<"dW", "db">>, computed |-> FALSE],
     [porder |-> <<"b", "W">>, gorder |-> <<"db", "dW">>, computed |-> TRUE],
     [porder |-> <<"W", "b">>, gorder |-> <<"db", "dW">>, computed |-> TRUE]}

Dense(l, shape, f) ==
    Layer("Dense",
          Dict(f.porder, [k \in {"W", "b"} |-> ArrayOf(RoleShape(k, shape), 1000 * l + (IF k = "W" THEN 0 ELSE 500))]),
          IF f.computed
          THEN Dict(f.gorder, [g \in {"dW", "db"} |->
                       ArrayOf(RoleShape(IF g = "dW" THEN "W" ELSE "b", shape),
                               7000 + 100 * l + (IF g = "dW" THEN 0 ELSE 50))])
          ELSE None,
          f.gorder)

\* the layers a model may have at position l
LayersAt(l) ==
    {Dense(l, shape, f) : shape \in Shapes, f \in LayerFlavours}
    \cup {Layer(kind, None, None, <<>>) : kind \in {"Activation", "Dropout", "BatchNorm"}}

LayerStacks ==
    UNION {{ls \in [1..n -> UNION {LayersAt(l) : l \in 1..n}] : \A l \in 1..n : ls[l] \in LayersAt(l)} :
              n \in 1..MaxLayers}

\* the model configurations: a model that is to be rejected is given one cost only
Models ==
    {[regularizer |-> r, cost |-> c] :
        <<r, c>> \in ({"None"} \X CostFns) \cup ((Regularizers \ {"None"}) \X {"linear"})}

NoFed == [i |-> -1, sign |-> 0, seen |-> <<>>]

range_short(n) == 0..(n - 2)

\* range(n)
range(n) == 0..(n - 1)

\* num_params = len(param_theta)
num_params == Len(param_theta)

(***************************************************************************)
(* GradientChecker.compute_error (gradient_checker.py)                     *)
(***************************************************************************)
CheckerInit ==
    /\ variant = "compute_error"
    /\ model \in Models
    /\ layers \in LayerStacks
    /\ layers0 = layers
    /\ pc = "start"
    /\ err = NoError
    /\ keys = Unused /\ params = Unused /\ grads = Unused /\ param_theta = Unused
    /\ param_cache = Unused /\ grad_theta = Unused /\ grad_approx = Unused
    /\ theta = Unused /\ out = Unused /\ diff = Unused
    /\ i = 0 /\ cost_plus = 0 /\ fed = NoFed /\ forwards = 0
    /\ verdict = NoReport

\* the asserts of compute_error
Admissible ==
    /\ model.regularizer = "None"
    /\ \A l \in DOMAIN layers : layers[l].kind \notin {"Dropout", "BatchNorm"}

CheckerAccepts ==
    /\ variant = "compute_error" /\ pc = "start"
    /\ Admissible
    /\ pc' = "snapshot"
    /\ UNCHANGED <<variant, model, layers, layers0, err, keys, params, grads, param_theta,
                   param_cache, grad_theta, grad_approx, i, cost_plus, fed, forwards,
                   theta, out, diff, verdict>>

CheckerRejects ==
    /\ variant = "compute_error" /\ pc = "start"
    /\ ~Admissible
    /\ err' = Raised("AssertionError", "start")
    /\ pc' = "raised"
    /\ UNCHANGED <<variant, model, layers, layers0, keys, params, grads, param_theta,
                   param_cache, grad_theta, grad_approx, i, cost_plus, fed, forwards,
                   theta, out, diff, verdict>>

\* params = roll_params(layers, 'params'); grads = roll_params(layers, 'grads')
Snapshot ==
    /\ variant = "compute_error" /\ pc = "snapshot"
    /\ params' = roll_params(layers, "params")
    /\ grads' = roll_params(layers, "grads")
    /\ pc' = "analytic"
    /\ UNCHANGED <<variant, model, layers, layers0, err, keys, param_theta,
                   param_cache, grad_theta, grad_approx, i, cost_plus, fed, forwards,
                   theta, out, diff, verdict>>

\* output = propagate_forward(X); propagate_backward(output, Y)
AnalyticPass ==
    /\ variant = "compute_error" /\ pc = "analytic"
    /\ forwards' = forwards + 1
    /\ layers' = propagate_backward(model.cost, layers)
    /\ pc' = "extract"
    /\ UNCHANGED <<variant, model, layers0, err, keys, params, grads, param_theta,
                   param_cache, grad_theta, grad_approx, i, cost_plus, fed,
                   theta, out, diff, verdict>>

\* propagate_forward(X) raises
AnalyticPassRaises ==
    /\ variant = "compute_error" /\ pc = "analytic"
    /\ forwards' = forwards + 1
    /\ err' = Raised("ForwardError", "analytic")
    /\ pc' = "raised"
    /\ UNCHANGED <<variant, model, layers, layers0, keys, params, grads, param_theta,
                   param_cache, grad_theta, grad_approx, i, cost_plus, fed,
                   theta, out, diff, verdict>>

\* param_theta, grad_theta = the rolled params and grads; grad_approx = zeros
Extract ==
    /\ variant = "compute_error" /\ pc = "extract"
    /\ param_theta' = roll_params(layers, "params")
    /\ grad_theta' = roll_params(layers, "grads")
    /\ grad_approx' = Zeros(Len(roll_params(layers, "params")))
    /\ i' = 0
    /\ pc' = "plus"
    /\ UNCHANGED <<variant, model, layers, layers0, err, keys, params, grads,
                   param_cache, cost_plus, fed, forwards, theta, out, diff, verdict>>

\* the plus pass of coordinate i
PlusPass ==
    /\ variant = "compute_error" /\ pc = "plus" /\ i \in range(num_params)
    /\ LET theta_plus == Perturb(param_theta, i, Eps)
           installed == unroll_params(theta_plus, layers, "params").layers
       IN  /\ layers' = installed
           /\ fed' = [i |-> i, sign |-> 1, seen |-> roll_params(installed, "params")]
           /\ cost_plus' = compute_cost(model.cost, installed)
    /\ forwards' = forwards + 1
    /\ pc' = "minus"
    /\ UNCHANGED <<variant, model, layers0, err, keys, params, grads, param_theta,
                   param_cache, grad_theta, grad_approx, i, theta, out, diff, verdict>>

\* propagate_forward or compute_cost raises in the plus pass
PlusPassRaises ==
    /\ variant = "compute_error" /\ pc = "plus" /\ i \in range(num_params)
    /\ layers' = unroll_params(Perturb(param_theta, i, Eps), layers, "params").layers
    /\ forwards' = forwards + 1
    /\ err' = Raised("ForwardError", "plus")
    /\ pc' = "raised"
    /\ UNCHANGED <<variant, model, layers0, keys, params, grads, param_theta,
                   param_cache, grad_theta, grad_approx, i, cost_plus, fed,
                   theta, out, diff, verdict>>

\* the minus pass of coordinate i and grad_approx[i]; the quotient is rounded to
\* the grid (it is exact for the costs of the collaborator model)
MinusPass ==
    /\ variant = "compute_error" /\ pc = "minus"
    /\ LET theta_minus == Perturb(param_theta, i, -Eps)
           installed == unroll_params(theta_minus, layers, "params").layers
           cost_minus == compute_cost(model.cost, installed)
       IN  /\ layers' = installed
           /\ fed' = [i |-> i, sign |-> -1, seen |-> roll_params(installed, "params")]
           /\ grad_approx' = [grad_approx EXCEPT ![i + 1] = (cost_plus - cost_minus) \div (2 * Eps)]
    /\ forwards' = forwards + 1
    /\ i' = i + 1
    /\ pc' = "plus"
    /\ UNCHANGED <<variant, model, layers0, err, keys, params, grads, param_theta,
                   param_cache, grad_theta, cost_plus, theta, out, diff, verdict>>

\* propagate_forward or compute_cost raises in the minus pass
MinusPassRaises ==
    /\ variant = "compute_error" /\ pc = "minus"
    /\ layers' = unroll_params(Perturb(param_theta, i, -Eps), layers, "params").layers
    /\ forwards' = forwards + 1
    /\ err' = Raised("ForwardError", "minus")
    /\ pc' = "raised"
    /\ UNCHANGED <<variant, model, layers0, keys, params, grads, param_theta,
                   param_cache, grad_theta, grad_approx, i, cost_plus, fed,
                   theta, out, diff, verdict>>

\* unroll_params(params, layers, 'params'); unroll_params(grads, layers, 'grads')
ResetOutcome ==
    LET p == unroll_params(params, layers, "params")
    IN  IF p.err # "none" THEN p ELSE unroll_params(grads, p.layers, "grads")

Reset ==
    /\ variant = "compute_error" /\ pc = "plus" /\ i \notin range(num_params)
    /\ ResetOutcome.err = "none"
    /\ layers' = ResetOutcome.layers
    /\ pc' = "score"
    /\ UNCHANGED <<variant, model, layers0, err, keys, params, grads, param_theta,
                   param_cache, grad_theta, grad_approx, i, cost_plus, fed, forwards,
                   theta, out, diff, verdict>>

\* a reshape of the reset raises
ResetRaises ==
    /\ variant = "compute_error" /\ pc = "plus" /\ i \notin range(num_params)
    /\ ResetOutcome.err # "none"
    /\ layers' = ResetOutcome.layers
    /\ err' = Raised(ResetOutcome.err, "reset")
    /\ pc' = "raised"
    /\ UNCHANGED <<variant, model, layers0, keys, params, grads, param_theta,
                   param_cache, grad_theta, grad_approx, i, cost_plus, fed, forwards,
                   theta, out, diff, verdict>>

\* relative_error = calculate_diff(grad_theta, grad_approx); return relative_error
RelativeError ==
    /\ variant = "compute_error" /\ pc = "score"
    /\ diff' = relative_error(grad_theta, grad_approx)
    /\ pc' = "returned"
    /\ UNCHANGED <<variant, model, layers, layers0, err, keys, params, grads, param_theta,
                   param_cache, grad_theta, grad_approx, i, cost_plus, fed, forwards,
                   theta, out, verdict>>

CheckerNext ==
    \/ CheckerAccepts
    \/ CheckerRejects
    \/ Snapshot
    \/ AnalyticPass
    \/ AnalyticPassRaises
    \/ Extract
    \/ PlusPass
    \/ PlusPassRaises
    \/ MinusPass
    \/ MinusPassRaises
    \/ Reset
    \/ ResetRaises
    \/ RelativeError

(***************************************************************************)
(* GradientCheck.run (gradient_check.py)                                   *)
(***************************************************************************)
\* key + str(l)
Key(key, l) == key \o ToString(l)

RECURSIVE KeysFrom(_, _, _)
KeysFrom(pair, l, n) ==
    IF l >= n THEN <<>> ELSE <<Key(pair[1], l), Key(pair[2], l)>> \o KeysFrom(pair, l + 1, n)

\* [key + str(l) for l in range(len(layer_dims)) for key in ('W', 'b')]
param_keys(n) == KeysFrom(<<"W", "b">>, 0, n)

\* [key + str(l) for l in range(len(layer_dims)) for key in ('dW', 'db')]
grad_keys(n) == KeysFrom(<<"dW", "db">>, 0, n)

Reverse(s) == [p \in 1..Len(s) |-> s[Len(s) + 1 - p]]

\* which layer and role each key of the run model names
Slots(n) == {[l |-> l, role |-> role] : l \in 0..(n - 1), role \in {"W", "b"}}

SlotOf(n, k) == CHOOSE x \in Slots(n) : k = Key(x.role, x.l) \/ k = Key(GradKey(x.role), x.l)

\* model.initialize_params(X): one weight and one bias array per layer
InitialParams(order, shapes) ==
    Dict(order, [k \in Range(order) |->
                    LET x == SlotOf(Len(shapes), k)
                    IN  ArrayOf(RoleShape(x.role, shapes[x.l + 1]),
                                1000 * (x.l + 1) + (IF x.role = "W" THEN 0 ELSE 500))])

\* model.propagate_backward(AL, Y, caches): the gradient of every parameter
run_backward(m, d) ==
    Dict(m.gorder, [g \in Range(m.gorder) |->
                       LET x == SlotOf(m.layer_dims, g)
                       IN  Gradient(m.cost, x.l + 1, x.role, d.val[Key(x.role, x.l)].shape)])

\* model.compute_cost(AL, Y, params) of the forward pass on these params
run_cost(m, d) ==
    SumOver([x \in Slots(m.layer_dims) |-> ArrayCost(m.cost, x.l + 1, x.role, d.val[Key(x.role, x.l)])],
            Slots(m.layer_dims))

RunInit ==
    /\ variant = "run"
    /\ \E n \in 1..MaxLayers :
          \E rc \in ({"None"} \X CostFns) \cup ((Regularizers \ {"None"}) \X {"linear"}),
             po \in {param_keys(n), Reverse(param_keys(n))},
             go \in {grad_keys(n), Reverse(grad_keys(n))},
             shapes \in [1..n -> Shapes] :
                model = [regularizer |-> rc[1], cost |-> rc[2], layer_dims |-> n,
                         initial |-> InitialParams(po, shapes), gorder |-> go]
    /\ layers = Unused /\ layers0 = Unused
    /\ pc = "start"
    /\ err = NoError
    /\ keys = Unused /\ params = Unused /\ grads = Unused /\ param_theta = Unused
    /\ param_cache = Unused /\ grad_theta = Unused /\ grad_approx = Unused
    /\ theta = Unused /\ out = Unused /\ diff = Unused
    /\ i = 0 /\ cost_plus = 0 /\ fed = NoFed /\ forwards = 0
    /\ verdict = NoReport

\* assert(not isinstance(self.model.regularizer, regularizers.Dropout))
RunAccepts ==
    /\ variant = "run" /\ pc = "start"
    /\ model.regularizer # "Dropout"
    /\ pc' = "gradients"
    /\ UNCHANGED <<variant, model, layers, layers0, err, keys, params, grads, param_theta,
                   param_cache, grad_theta, grad_approx, i, cost_plus, fed, forwards,
                   theta, out, diff, verdict>>

RunRejects ==
    /\ variant = "run" /\ pc = "start"
    /\ model.regularizer = "Dropout"
    /\ err' = Raised("AssertionError", "start")
    /\ pc' = "raised"
    /\ UNCHANGED <<variant, model, layers, layers0, keys, params, grads, param_theta,
                   param_cache, grad_theta, grad_approx, i, cost_plus, fed, forwards,
                   theta, out, diff, verdict>>

\* params = initialize_params(X); AL, caches = propagate_forward(X, params);
\* grads = propagate_backward(AL, Y, caches)
RunGradients ==
    /\ variant = "run" /\ pc = "gradients"
    /\ params' = model.initial
    /\ forwards' = forwards + 1
    /\ grads' = run_backward(model, model.initial)
    /\ pc' = "extract"
    /\ UNCHANGED <<variant, model, layers, layers0, err, keys, param_theta,
                   param_cache, grad_theta, grad_approx, i, cost_plus, fed,
                   theta, out, diff, verdict>>

\* propagate_forward(X, params) raises
RunGradientsRaises ==
    /\ variant = "run" /\ pc = "gradients"
    /\ params' = model.initial
    /\ forwards' = forwards + 1
    /\ err' = Raised("ForwardError", "gradients")
    /\ pc' = "raised"
    /\ UNCHANGED <<variant, model, layers, layers0, keys, grads, param_theta,
                   param_cache, grad_theta, grad_approx, i, cost_plus, fed,
                   theta, out, diff, verdict>>

\* param_theta, param_cache = params_to_vector(params, param_keys);
\* grad_theta, _ = params_to_vector(grads, grad_keys); gradapprox = zeros
RunExtract ==
    /\ variant = "run" /\ pc = "extract"
    /\ LET p == params_to_vector(params, param_keys(model.layer_dims))
           g == params_to_vector(grads, grad_keys(model.layer_dims))
       IN  /\ p.err = "none" /\ g.err = "none"
           /\ keys' = param_keys(model.layer_dims)
           /\ param_theta' = p.theta
           /\ param_cache' = p.cache
           /\ grad_theta' = g.theta
           /\ grad_approx' = Zeros(Len(p.theta))
    /\ i' = 0
    /\ pc' = "plus"
    /\ UNCHANGED <<variant, model, layers, layers0, err, params, grads,
                   cost_plus, fed, forwards, theta, out, diff, verdict>>

\* the plus pass of coordinate i
RunPlus ==
    /\ variant = "run" /\ pc = "plus" /\ i \in range(num_params)
    /\ LET theta_plus == Perturb(param_theta, i, Eps)
           theta_plus_params == vector_to_params(theta_plus, param_cache).params
       IN  /\ fed' = [i |-> i, sign |-> 1, seen |-> params_to_vector(theta_plus_params, keys).theta]
           /\ cost_plus' = run_cost(model, theta_plus_params)
    /\ forwards' = forwards + 1
    /\ pc' = "minus"
    /\ UNCHANGED <<variant, model, layers, layers0, err, keys, params, grads, param_theta,
                   param_cache, grad_theta, grad_approx, i, theta, out, diff, verdict>>

\* the minus pass of coordinate i and gradapprox[i]
RunMinus ==
    /\ variant = "run" /\ pc = "minus"
    /\ LET theta_minus == Perturb(param_theta, i, -Eps)
           theta_minus_params == vector_to_params(theta_minus, param_cache).params
           J_minus == run_cost(model, theta_minus_params)
       IN  /\ fed' = [i |-> i, sign |-> -1, seen |-> params_to_vector(theta_minus_params, keys).theta]
           /\ grad_approx' = [grad_approx EXCEPT ![i + 1] = (cost_plus - J_minus) \div (2 * Eps)]
    /\ forwards' = forwards + 1
    /\ i' = i + 1
    /\ pc' = "plus"
    /\ UNCHANGED <<variant, model, layers, layers0, err, keys, params, grads, param_theta,
                   param_cache, grad_theta, cost_plus, theta, out, diff, verdict>>

\* propagate_forward or compute_cost raises inside the loop
RunLoopRaises ==
    /\ variant = "run"
    /\ \/ pc = "plus" /\ i \in range(num_params)
       \/ pc = "minus"
    /\ forwards' = forwards + 1
    /\ err' = Raised("ForwardError", pc)
    /\ pc' = "raised"
    /\ UNCHANGED <<variant, model, layers, layers0, keys, params, grads, param_theta,
                   param_cache, grad_theta, grad_approx, i, cost_plus, fed,
                   theta, out, diff, verdict>>

\* diff = calculate_diff(grad_theta, gradapprox); the report; return diff
RunReport ==
    /\ variant = "run" /\ pc = "plus" /\ i \notin range(num_params)
    /\ diff' = calculate_diff(grad_theta, grad_approx)
    /\ verdict' = Report(calculate_diff(grad_theta, grad_approx))
    /\ pc' = "returned"
    /\ UNCHANGED <<variant, model, layers, layers0, err, keys, params, grads, param_theta,
                   param_cache, grad_theta, grad_approx, i, cost_plus, fed, forwards,
                   theta, out>>

RunNext ==
    \/ RunAccepts
    \/ RunRejects
    \/ RunGradients
    \/ RunGradientsRaises
    \/ RunExtract
    \/ RunPlus
    \/ RunMinus
    \/ RunLoopRaises
    \/ RunReport

(***************************************************************************)
(* Both checkers                                                           *)
(***************************************************************************)
Init == CheckerInit \/ RunInit

Next == CheckerNext \/ RunNext

Spec == Init /\ [][Next]_vars

(***************************************************************************)
(* Properties of the two checkers                                          *)
(***************************************************************************)
Checking == variant \in {"compute_error", "run"}

\* the flat vectors have been taken
Extracted == Checking /\ pc \in {"plus", "minus", "score", "returned"}

\* C1: restoration. Whatever the layers held at call entry, gradients not yet
\* computed included, once compute_error is through its loop and ends (it returns,
\* or its reset raises) every layer's params and grads are what they were at entry.
C1_Restoration ==
    (variant = "compute_error" /\ (pc \in {"score", "returned"} \/ RaisedAt("reset")))
        => layers = layers0

\* each array with every element replaced by the layer, role and index it belongs to
Labelled(d, l) ==
    IF d.none THEN d
    ELSE [d EXCEPT !.val = [k \in DOMAIN d.val |->
             [shape |-> d.val[k].shape,
              at |-> [t \in Indices(d.val[k].shape) |->
                         <<l, IF k \in {"W", "dW"} THEN "W" ELSE "b", t>>]]]]

LabelledLayers(ls) ==
    [l \in DOMAIN ls |-> [ls[l] EXCEPT !.params = Labelled(@, l), !.grads = Labelled(@, l)]]

LabelledRun(d) ==
    [d EXCEPT !.val = [k \in DOMAIN d.val |->
        [shape |-> d.val[k].shape,
         at |-> [t \in Indices(d.val[k].shape) |->
                    <<SlotOf(model.layer_dims, k).l, SlotOf(model.layer_dims, k).role, t>>]]]]

\* C3: order consistency. Position by position, the flatten of the parameters and
\* the flatten of the gradients hold the same layer, role and element, so that
\* grad_approx[i] and grad_theta[i] are about the same scalar; the two have the
\* same length.
C3_OrderConsistency ==
    /\ (Extracted /\ variant = "compute_error") =>
           roll_params(LabelledLayers(layers), "params") = roll_params(LabelledLayers(layers), "grads")
    /\ (Extracted /\ variant = "run") =>
           params_to_vector(LabelledRun(params), param_keys(model.layer_dims)).theta
             = params_to_vector(LabelledRun(grads), grad_keys(model.layer_dims)).theta

\* the model has a dropout or batch-normalization layer or regularizer
Stochastic ==
    \/ model.regularizer \in {"Dropout", "BatchNorm"}
    \/ variant = "compute_error" /\ \E l \in DOMAIN layers0 : layers0[l].kind \in {"Dropout", "BatchNorm"}

\* C4: precondition enforcement. A check of a model with a dropout or batch
\* normalization layer or regularizer makes no forward call and changes nothing:
\* it is at its start or has been rejected.
C4_RejectedFirst ==
    (Checking /\ Stochastic) => (forwards = 0 /\ pc \in {"start", "raised"} /\ layers = layers0)

\* C7: restoration on failure. When a forward pass or cost evaluation of the
\* loop of compute_error raises, the layers are what they were at call entry.
C7_RestoredOnFailure ==
    (variant = "compute_error" /\ pc = "raised" /\ (RaisedAt("plus") \/ RaisedAt("minus")))
        => layers = layers0

\* C9: non-accumulation. At every forward evaluation of the loop the model holds
\* the original param_theta in every coordinate but i, and in coordinate i the
\* original value plus eps (plus pass) or minus eps (minus pass).
C9_NonAccumulation ==
    (Checking /\ fed.i >= 0) =>
        /\ Len(fed.seen) = Len(param_theta)
        /\ \A p \in 1..Len(param_theta) :
              fed.seen[p] = param_theta[p] + (IF p = fed.i + 1 THEN fed.sign * Eps ELSE 0)

\* the minus pass of a third coordinate, in a later layer of compute_error
C9_Witness ==
    /\ variant = "compute_error" /\ pc = "plus"
    /\ fed.i >= 3 /\ fed.sign = -1
    /\ fed.seen[fed.i + 1] = param_theta[fed.i + 1] - Eps
    /\ fed.seen[1] = param_theta[1]

\* C10 as stated: a completed call makes 2 * num_params + 2 forward evaluations.
C10_ForwardsPlusTwo ==
    (Checking /\ pc = "returned") => forwards = 2 * Len(param_theta) + 2

\* C10, amended: a completed call makes exactly 2 * num_params + 1 forward
\* evaluations: one before the loop and two for every coordinate.
C10_ForwardsPlusOne ==
    (Checking /\ pc = "returned") => forwards = 2 * Len(param_theta) + 1

\* a call on six or more parameters has returned
C10_Witness ==
    /\ Checking /\ pc = "returned"
    /\ Len(param_theta) >= 6
    /\ forwards = 2 * Len(param_theta) + 1

====
